---- MODULE Spec2Model ----
(***************************************************************************)
(* Session resolution and authentication callbacks of the cal web app:     *)
(*   packages/features/auth/lib/next-auth-options.ts  (authorize, signIn)  *)
(*   packages/features/auth/lib/getServerSession.ts   (getServerSession)   *)
(* The database tables (User, UserPassword, Account) and the in-memory     *)
(* session cache are the state; every callback is one action.              *)
(***************************************************************************)
EXTENDS Integers, Sequences, FiniteSets, TLC

VARIABLES
  users,         \* prisma User table: user id -> row
  userPassword,  \* prisma UserPassword table: user id -> hash ("" = no row)
  accounts,      \* prisma Account table: set of [userId, provider, providerAccountId]
  CACHE,         \* the LRU cache of getServerSession.ts: key -> session
  env,           \* process.env and build constants, fixed for a run
  consumed,      \* history: user id -> backup codes authorize has accepted
  resolved,      \* history: cache keys getServerSession resolved a session for
  converted,     \* history: ids of the password users signIn converted to a provider
  created,       \* history: the users signIn created, with the provider id they got
  last           \* the last callback that ran: its input and what it did

vars == <<users, userPassword, accounts, CACHE, env, consumed, resolved, converted, created, last>>

---------------------------------------------------------------------------
(* Bounds of the model *)

\* user ids range over 1..MaxUsers
MaxUsers == 2
\* stored backup-code lists have at most MaxBackupCodes slots
MaxBackupCodes == 2

(* Program constants *)

\* next-auth-options.ts:192  secret.length !== 32
TotpSecretLength == 32

---------------------------------------------------------------------------
(* Values *)

\* JavaScript null / undefined for a string-valued field
Null == "null"

UserIds == 1..MaxUsers

\* IdentityProvider enum
CAL == "CAL"
GOOGLE == "GOOGLE"
SAML == "SAML"

\* String.prototype.toLowerCase on the e-mail addresses of the model
toLowerCase(s) ==
  CASE s = "U1@cal.test" -> "u1@cal.test"
    [] s = "U2@cal.test" -> "u2@cal.test"
    [] s = "U3@cal.test" -> "u3@cal.test"
    [] OTHER -> s

\* credentials.backupCode.replaceAll("-", "") on the codes of the model
replaceAllDashes(s) ==
  CASE s = "c-1" -> "c1"
    [] s = "c-2" -> "c2"
    [] OTHER -> s

\* bcrypt hash of a password, and verifyPassword(password, hash)
hashPassword(pw) == "bcrypt:" \o pw

verifyPassword(pw, hash) == hash = hashPassword(pw)

\* isPasswordValid(password, false, true): the strict password rules
isPasswordValid(pw) == pw = "Str0ng-Passw0rd-15"

\* JSON.stringify / JSON.parse: a document is the tagged value
JSON_stringify(v) == <<"json", v>>

JSON_parse(doc) == doc[2]

\* symmetricEncrypt / symmetricDecrypt: AES under the deployment's key (every
\* ciphertext of the store was made under it).  <<>> is a null column.
symmetricEncrypt(text, key) == <<"aes256", key, text>>

symmetricDecrypt(cipher, key) == cipher[3]

\* secret.length of a decrypted two-factor secret
secretLength(secret) == IF secret = "secret32" THEN TotpSecretLength ELSE 16

\* totpAuthenticatorCheck(code, secret): the code the authenticator shows now
totpAuthenticatorCheck(code, secret) == secret = "secret32" /\ code = "424242"

\* Array.prototype.indexOf, 1-based; 0 stands for JavaScript's -1
indexOf(seq, x) ==
  IF \E i \in 1..Len(seq) : seq[i] = x
  THEN CHOOSE i \in 1..Len(seq) : seq[i] = x /\ \A j \in 1..(i - 1) : seq[j] # x
  ELSE 0

\* loginWithTotp(email): "/auth/login?totp=" followed by signJwt({ email })
loginWithTotp(email) == "/auth/login?totp=" \o email

\* IS_TEAM_BILLING_ENABLED true: a membership counts when its team metadata
\* parses and carries a subscriptionId
checkIfUserBelongsToActiveTeam(user, billing) ==
  \E i \in 1..Len(user.teams) :
    IF ~billing THEN TRUE
    ELSE user.teams[i].metadataValid /\ user.teams[i].subscriptionId # ""

\* UserRepository.findByEmailAndIncludeProfilesAndPassword({ email }):
\* the ids of the rows whose email is the lower-cased argument (0 or 1 row)
findByEmail(tbl, email) ==
  {id \in DOMAIN tbl : tbl[id].email = toLowerCase(email)}

---------------------------------------------------------------------------
(* CredentialsProvider.authorize, next-auth-options.ts:107-240 *)

\* lines 130-148: identity-provider and password checks; "" = passed
providerAndPasswordChecks(user, hash, credentials) ==
  IF user.identityProvider # CAL /\ credentials.totpCode = ""
  THEN "ThirdPartyIdentityProviderEnabled"
  ELSE IF hash = "" /\ user.identityProvider = CAL
  THEN "IncorrectEmailPassword"
  ELSE IF hash = "" /\ user.identityProvider # CAL /\ credentials.totpCode = ""
  THEN "IncorrectEmailPassword"
  ELSE IF hash # "" /\ credentials.totpCode = ""
          /\ ~verifyPassword(credentials.password, hash)
  THEN "IncorrectEmailPassword"
  ELSE ""

\* backupCodeBranch that accepts a code and leaves it in the list
backupCodeBranch_KeepCode(user, credentials, key) ==
  IF key = ""
  THEN [error |-> "InternalServerError", update |-> FALSE, backupCodes |-> user.backupCodes]
  ELSE IF user.backupCodes = <<>>
  THEN [error |-> "MissingBackupCodes", update |-> FALSE, backupCodes |-> user.backupCodes]
  ELSE
    LET backupCodes == JSON_parse(symmetricDecrypt(user.backupCodes, key))
        index == indexOf(backupCodes, replaceAllDashes(credentials.backupCode))
    IN IF index = 0
       THEN [error |-> "IncorrectBackupCode", update |-> FALSE,
             backupCodes |-> user.backupCodes]
       ELSE [error |-> "", update |-> TRUE,
             backupCodes |-> symmetricEncrypt(JSON_stringify(backupCodes), key)]

\* lines 150-175: the backup-code branch; backupCodes is the column to store
backupCodeBranch(user, credentials, key) ==
  IF key = ""
  THEN [error |-> "InternalServerError", update |-> FALSE, backupCodes |-> user.backupCodes]
  ELSE IF user.backupCodes = <<>>
  THEN [error |-> "MissingBackupCodes", update |-> FALSE, backupCodes |-> user.backupCodes]
  ELSE
    LET backupCodes == JSON_parse(symmetricDecrypt(user.backupCodes, key))
        index == indexOf(backupCodes, replaceAllDashes(credentials.backupCode))
    IN IF index = 0
       THEN [error |-> "IncorrectBackupCode", update |-> FALSE,
             backupCodes |-> user.backupCodes]
       ELSE [error |-> "", update |-> TRUE,
             backupCodes |->
               symmetricEncrypt(JSON_stringify([backupCodes EXCEPT ![index] = Null]), key)]

\* totpBranch without the authenticator check
totpBranch_AnyCode(user, credentials, key) ==
  IF credentials.totpCode = "" THEN "SecondFactorRequired" ELSE ""

\* lines 176-206: the TOTP branch; "" = passed
totpBranch(user, credentials, key) ==
  IF credentials.totpCode = "" THEN "SecondFactorRequired"
  ELSE IF user.twoFactorSecret = <<>> THEN "InternalServerError"
  ELSE IF key = "" THEN "InternalServerError"
  ELSE
    LET secret == symmetricDecrypt(user.twoFactorSecret, key)
    IN IF secretLength(secret) # TotpSecretLength THEN "InternalServerError"
       ELSE IF ~totpAuthenticatorCheck(credentials.totpCode, secret)
       THEN "IncorrectTwoFactorCode"
       ELSE ""

\* lines 150-206: which branch runs
secondFactor(user, credentials, key) ==
  IF user.twoFactorEnabled /\ credentials.backupCode # ""
  THEN backupCodeBranch(user, credentials, key)
  ELSE IF user.twoFactorEnabled
  THEN [error |-> totpBranch(user, credentials, key), update |-> FALSE,
        backupCodes |-> user.backupCodes]
  ELSE [error |-> "", update |-> FALSE, backupCodes |-> user.backupCodes]

\* the stored role handed out unchecked
validateRole_NoDowngrade(role, user, credentials, e) == role

\* lines 211-228
validateRole(role, user, credentials, e) ==
  IF role # "ADMIN" THEN role
  ELSE IF user.identityProvider # CAL THEN role
  ELSE IF e.NEXT_PUBLIC_IS_E2E THEN role
  ELSE IF isPasswordValid(credentials.password) /\ user.twoFactorEnabled THEN role
  ELSE IF e.isENVDev THEN role
  ELSE "INACTIVE_ADMIN"

\* the object authorize returns; id 0 stands for "nothing returned"
NoUser == [id |-> 0, username |-> Null, email |-> Null, name |-> Null,
           role |-> Null, belongsToActiveTeam |-> FALSE]

\* what a call that throws reports
authorizeThrows(tbl, userId, stage, error, checked) ==
  [outcome |-> "throw", error |-> error, stage |-> stage, userId |-> userId,
   returned |-> NoUser, users |-> tbl, rateLimitChecked |-> checked, dbWrites |-> 0]

\* a distinct error for an unknown e-mail
userNotFoundError_Distinct == "UserNotFound"

\* line 118: the error for an e-mail that matches no user
userNotFoundError == "IncorrectEmailPassword"

\* the rate limit consulted before the lock check
lockAndRateLimit_RateLimitFirst(user, limited) ==
  IF limited
  THEN [error |-> "RateLimitExceeded", stage |-> "rateLimit", checked |-> TRUE]
  ELSE IF user.locked
  THEN [error |-> "UserAccountLocked", stage |-> "locked", checked |-> TRUE]
  ELSE [error |-> "", stage |-> "", checked |-> TRUE]

\* lines 121-128: the lock check, then the rate limit; "" = passed
lockAndRateLimit(user, limited) ==
  IF user.locked
  THEN [error |-> "UserAccountLocked", stage |-> "locked", checked |-> FALSE]
  ELSE IF limited
  THEN [error |-> "RateLimitExceeded", stage |-> "rateLimit", checked |-> TRUE]
  ELSE [error |-> "", stage |-> "", checked |-> TRUE]

\* lines 107-240.  limited: checkRateLimitAndThrowError throws for this call
authorize(tbl, pwTbl, e, credentials, limited) ==
  IF ~credentials.given
  THEN authorizeThrows(tbl, 0, "credentials", "InternalServerError", FALSE)
  ELSE
    LET found == findByEmail(tbl, credentials.email)
    IN IF found = {}
       THEN authorizeThrows(tbl, 0, "lookup", userNotFoundError, FALSE)
       ELSE
         LET id == CHOOSE i \in found : TRUE
             user == tbl[id]
             hash == pwTbl[id]
             pre == lockAndRateLimit(user, limited)
             pw == providerAndPasswordChecks(user, hash, credentials)
             sf == secondFactor(user, credentials, e.CALENDSO_ENCRYPTION_KEY)
         IN IF pre.error # ""
            THEN authorizeThrows(tbl, id, pre.stage, pre.error, pre.checked)
            ELSE IF pw # ""
            THEN authorizeThrows(tbl, id, "password", pw, TRUE)
            ELSE IF sf.error # ""
            THEN authorizeThrows(tbl, id, "secondFactor", sf.error, TRUE)
            ELSE
              [outcome |-> "ok", error |-> "", stage |-> "done", userId |-> id,
               returned |->
                 [id |-> id, username |-> user.username, email |-> user.email,
                  name |-> user.name,
                  role |-> validateRole(user.role, user, credentials, e),
                  belongsToActiveTeam |->
                    checkIfUserBelongsToActiveTeam(user, e.IS_TEAM_BILLING_ENABLED)],
               users |-> IF sf.update
                         THEN [tbl EXCEPT ![id].backupCodes = sf.backupCodes]
                         ELSE tbl,
               rateLimitChecked |-> TRUE,
               dbWrites |-> IF sf.update THEN 1 ELSE 0]

---------------------------------------------------------------------------
(* The inputs of authorize *)

\* what a caller can put in the credentials form; "" is an empty field
CredentialInputs ==
  [given : {TRUE},
   email : {"U1@cal.test", "u2@cal.test"},
   password : {"hunter2", "Str0ng-Passw0rd-15"},
   totpCode : {"", "424242", "000000"},
   backupCode : {"", "c-1", "c2"}]
  \cup
  [given : {FALSE}, email : {""}, password : {""}, totpCode : {""}, backupCode : {""}]

\* the callback as NextAuth runs it: one sign-in attempt
Authorize ==
  \E credentials \in CredentialInputs, limited \in BOOLEAN :
  \E r \in {authorize(users, userPassword, env, credentials, limited)} :
    LET code == replaceAllDashes(credentials.backupCode)
    IN /\ users' = r.users
       /\ consumed' = IF r.outcome = "ok" /\ r.dbWrites > 0
                      THEN [consumed EXCEPT ![r.userId] = @ \cup {code}]
                      ELSE consumed
       /\ last' = [op |-> "authorize", credentials |-> credentials,
                   limited |-> limited, outcome |-> r.outcome, error |-> r.error,
                   stage |-> r.stage, userId |-> r.userId, returned |-> r.returned,
                   rateLimitChecked |-> r.rateLimitChecked, dbWrites |-> r.dbWrites,
                   backupBefore |-> IF r.userId = 0 THEN <<>>
                                    ELSE users[r.userId].backupCodes,
                   reused |-> r.userId # 0 /\ code # ""
                              /\ code \in consumed[r.userId]]
       /\ UNCHANGED <<userPassword, accounts, CACHE, env, resolved, converted, created>>

---------------------------------------------------------------------------
(* Initial states *)

\* sequences over S of length at most n
SeqsUpTo(S, n) == UNION {[1..k -> S] : k \in 0..n}

\* a row of the User table
UserRow(email, locked, idp, idpId, tfa, secret, codes, verified, username, role, teams) ==
  [email |-> email, name |-> "Ann", username |-> username, locked |-> locked,
   identityProvider |-> idp, identityProviderId |-> idpId,
   twoFactorEnabled |-> tfa, twoFactorSecret |-> secret, backupCodes |-> codes,
   emailVerified |-> verified, role |-> role, teams |-> teams]

\* the encrypted twoFactorSecret column: null, a 32-character secret, a short one
SecretColumns ==
  {<<>>} \cup {symmetricEncrypt(s, "k1") : s \in {"secret32", "secret16"}}

\* the encrypted backupCodes column: null, or a list whose used slots are null
BackupColumns ==
  {<<>>} \cup {symmetricEncrypt(JSON_stringify(l), "k1") :
                 l \in SeqsUpTo({"c1", "c2", Null}, MaxBackupCodes)}

\* team memberships: none, a team without subscription, a subscribed team
TeamLists ==
  {<<>>,
   <<[metadataValid |-> TRUE, subscriptionId |-> ""]>>,
   <<[metadataValid |-> TRUE, subscriptionId |-> "sub_1"]>>}

\* process.env and the build's constants; no organization auto-accepts
Env(key, billing, e2e, dev, hosted) ==
  [CALENDSO_ENCRYPTION_KEY |-> key, IS_TEAM_BILLING_ENABLED |-> billing,
   NEXT_PUBLIC_IS_E2E |-> e2e, isENVDev |-> dev, hostedCal |-> hosted,
   ORGANIZATIONS_AUTOLINK |-> FALSE, autoAcceptOrg |-> 0,
   WEBAPP_URL |-> "https://app.cal.test"]

NoCall == [op |-> "none"]

\* one stored user, in every state of lock, provider, password and second
\* factor that sign-up, the settings pages and an admin can leave it in
InitAuthorize ==
  /\ \E locked \in BOOLEAN, idp \in {CAL, GOOGLE}, tfa \in BOOLEAN,
        secret \in SecretColumns, codes \in BackupColumns :
       /\ tfa \/ <<secret, codes>> \in
                   {<<(<<>>), (<<>>)>>,
                    <<symmetricEncrypt("secret32", "k1"),
                      symmetricEncrypt(JSON_stringify(<<"c1", "c2">>), "k1")>>}
       /\ users = (1 :> UserRow("u1@cal.test", locked, idp,
                                IF idp = CAL THEN Null ELSE "g-1",
                                tfa, secret, codes, TRUE, "ann", "ADMIN", <<>>))
  /\ \E hash \in {"", hashPassword("hunter2")} : userPassword = (1 :> hash)
  /\ accounts = {}
  /\ CACHE = <<>>
  /\ \E key \in {"", "k1"} : env = Env(key, TRUE, FALSE, FALSE, TRUE)
  /\ consumed = [id \in UserIds |-> {}]
  /\ resolved = {}
  /\ converted = {}
  /\ created = {}
  /\ last = NoCall

NextAuthorize == Authorize

SpecAuthorize == InitAuthorize /\ [][NextAuthorize]_vars

---------------------------------------------------------------------------
(* getServerSession, getServerSession.ts:133-230 and 364-461 *)

\* what the upstream /api/auth/session answered: a falsy body (null), an
\* object without user ({}), or a session carrying calUser.id and expires
Payloads ==
  {[kind |-> "falsy", id |-> 0, expires |-> ""],
   [kind |-> "empty", id |-> 0, expires |-> ""]}
  \cup [kind : {"session"}, id : 1..(MaxUsers + 1), expires : {"2026-12-01", "2026-12-31"}]

\* the session object of a call that returns none
NoSession ==
  [hasValidLicense |-> FALSE, expires |-> "",
   user |-> [id |-> 0, name |-> Null, username |-> Null, email |-> Null,
             email_verified |-> FALSE, role |-> Null,
             belongsToActiveTeam |-> FALSE, profile |-> [upId |-> ""]],
   profileId |-> Null, upId |-> ""]

\* UserRepository.enrichUserWithTheProfile({ user, upId }): the user with the
\* profile the upId names; a "usr-" upId names the personal profile
enrichUserWithTheProfile(id, row, upId) ==
  [id |-> id, name |-> row.name, username |-> row.username, email |-> row.email,
   emailVerified |-> row.emailVerified, role |-> row.role,
   profile |-> [upId |-> upId]]

\* the upId built from the bare user id
sessionUpId_Bare(id) == ToString(id)

\* lines 176 and 407: `usr-${_user.calUser.id}`
sessionUpId(id) == "usr-" \o ToString(id)

\* lines 183-205 and 414-436: the session literal
buildSession(user, upId, expires) ==
  [hasValidLicense |-> FALSE, expires |-> expires,
   user |-> [id |-> user.id, name |-> user.name, username |-> user.username,
             email |-> user.email,
             email_verified |-> user.emailVerified,
             role |-> user.role,
             belongsToActiveTeam |-> TRUE,
             profile |-> user.profile],
   profileId |-> Null, upId |-> upId]

\* what a call reports: the value returned (or the throw), and what it read
sessionResult(outcome, session, cacheReads, dbReads) ==
  [outcome |-> outcome, session |-> session,
   cacheReads |-> cacheReads, dbReads |-> dbReads]

\* getServerSession with the cache consulted before the payload is tested
getServerSession_LookupFirst(payload, cache, tbl, expires) ==
  LET key == JSON_stringify(payload)
  IN IF key \in DOMAIN cache THEN sessionResult("session", cache[key], 1, 0)
     ELSE IF payload.kind = "falsy" THEN sessionResult("null", NoSession, 1, 0)
     ELSE IF payload.kind = "empty" THEN sessionResult("TypeError", NoSession, 1, 0)
     ELSE IF payload.id \notin DOMAIN tbl THEN sessionResult("null", NoSession, 1, 1)
     ELSE sessionResult(
            "session",
            buildSession(
              enrichUserWithTheProfile(payload.id, tbl[payload.id], sessionUpId(payload.id)),
              sessionUpId(payload.id), expires),
            1, 1)

\* lines 150-229 and 380-460.  Reading calUser.id of a payload without it
\* throws a TypeError; nothing in the function writes the cache.
getServerSession(payload, cache, tbl, expires) ==
  LET key == JSON_stringify(payload)
  IN IF payload.kind = "falsy" THEN sessionResult("null", NoSession, 0, 0)
     ELSE IF key \in DOMAIN cache THEN sessionResult("session", cache[key], 1, 0)
     ELSE IF payload.kind = "empty" THEN sessionResult("TypeError", NoSession, 1, 0)
     ELSE IF payload.id \notin DOMAIN tbl THEN sessionResult("null", NoSession, 1, 1)
     ELSE sessionResult(
            "session",
            buildSession(
              enrichUserWithTheProfile(payload.id, tbl[payload.id], sessionUpId(payload.id)),
              sessionUpId(payload.id), expires),
            1, 1)

\* one call: the state it leaves and the record of it
sessionCall(variant, payload, r) ==
  /\ last' = [op |-> "getServerSession", variant |-> variant, payload |-> payload,
              outcome |-> r.outcome, session |-> r.session,
              cacheReads |-> r.cacheReads, dbReads |-> r.dbReads,
              cacheKeysBefore |-> DOMAIN CACHE,
              repeat |-> JSON_stringify(payload) \in resolved]
  /\ resolved' = IF r.outcome = "session"
                 THEN resolved \cup {JSON_stringify(payload)} ELSE resolved
  /\ UNCHANGED <<users, userPassword, accounts, CACHE, env, consumed, converted, created>>

\* lines 133-230: expires is the time of the call
GetServerSession ==
  \E payload \in Payloads, now \in {"2026-11-03"} :
    \E r \in {getServerSession(payload, CACHE, users, now)} :
      sessionCall("fetch ANEURIN_API_APP_DOMAIN", payload, r)

\* lines 364-461: expires is the upstream session's
GetServerSessionLocal ==
  \E payload \in Payloads :
    \E r \in {getServerSession(payload, CACHE, users, payload.expires)} :
      sessionCall("fetch localhost:3006", payload, r)

\* a plain row of the User table with the given team memberships
PlainRow(id, teams) ==
  UserRow("u" \o ToString(id) \o "@cal.test", FALSE, CAL, Null, FALSE,
          <<>>, <<>>, TRUE, "user" \o ToString(id), "USER", teams)

\* any set of stored users, each with any of the team memberships
InitSession ==
  /\ \E ids \in SUBSET UserIds :
       /\ \E teamsOf \in [ids -> TeamLists] :
            users = [id \in ids |-> PlainRow(id, teamsOf[id])]
       /\ userPassword = [id \in ids |-> ""]
  /\ accounts = {}
  /\ CACHE = <<>>
  /\ \E billing \in BOOLEAN : env = Env("k1", billing, FALSE, FALSE, TRUE)
  /\ consumed = [id \in UserIds |-> {}]
  /\ resolved = {}
  /\ converted = {}
  /\ created = {}
  /\ last = NoCall

NextSession == GetServerSession \/ GetServerSessionLocal

SpecSession == InitSession /\ [][NextSession]_vars

---------------------------------------------------------------------------
(* The /api/auth/session handler, apps/web/pages/api/auth/session.ts:5-11 *)

\* res.status(200).json(session); isNull marks the JSON body null.  An error
\* getServerSession throws is not caught: the request ends with the
\* framework's answer to an uncaught error, status 500
handlerResponse(r) ==
  IF r.outcome \in {"session", "null"}
  THEN [status |-> 200, isNull |-> r.outcome = "null", json |-> r.session]
  ELSE [status |-> 500, isNull |-> FALSE, json |-> NoSession]

\* lines 5-11: one request, served by either copy of getServerSession
handler ==
  \E payload \in Payloads, local \in BOOLEAN :
    \E r \in {getServerSession(payload, CACHE, users,
                                IF local THEN payload.expires ELSE "2026-11-03")} :
      /\ last' = [op |-> "handler", payload |-> payload, outcome |-> r.outcome,
                  session |-> r.session, response |-> handlerResponse(r)]
      /\ resolved' = IF r.outcome = "session"
                     THEN resolved \cup {JSON_stringify(payload)} ELSE resolved
      /\ UNCHANGED <<users, userPassword, accounts, CACHE, env, consumed,
                     converted, created>>

InitHandler == InitSession

NextHandler == handler

SpecHandler == InitHandler /\ [][NextHandler]_vars

---------------------------------------------------------------------------
(* AUTH_OPTIONS.callbacks.signIn, next-auth-options.ts:483-750 *)

\* lines 409-417
mapIdentityProvider(providerName) ==
  IF providerName \in {"saml-idp", "saml"} THEN SAML ELSE GOOGLE

\* slugify on the names of the model
slugify(name) == IF name = "Ann Lee" THEN "ann-lee" ELSE name

\* line 43: the slug and six random characters
usernameSlug(name, rnd) == slugify(name) \o "-" \o rnd

\* prisma findFirst without orderBy: the database may return any matching
\* row; with at most two matches, the oldest or the newest.  0 = no row
findFirst(matches, newest) ==
  IF matches = {} THEN 0
  ELSE IF newest THEN CHOOSE i \in matches : \A j \in matches : j <= i
  ELSE CHOOSE i \in matches : \A j \in matches : i <= j

\* what a call reports: the value returned, the branch that returned it, the
\* stored user it resolved to (0 = none) and the tables it leaves
signInResult(result, path, matched, tbl, pwTbl, accts) ==
  [result |-> result, path |-> path, matched |-> matched,
   users |-> tbl, userPassword |-> pwTbl, accounts |-> accts]

\* the sign-in let through without asking for the second factor
proceed_NoTotp(row) == "true"

\* lines 602-606, 635-639, 665-669, 703-707: ask for the second factor when
\* the stored user has it enabled
proceed(row) ==
  IF row.twoFactorEnabled THEN loginWithTotp(row.email) ELSE "true"

\* the branch without the lookup of the incoming e-mail: the e-mail is
\* always written
existingUserSignIn_NoConflictCheck(tbl, pwTbl, accts, params, idP, id, existingUser) ==
  IF existingUser.email = params.user.email
  THEN
    LET linked == {a \in accts : a.userId = id /\ a.provider = params.account.provider}
        accts2 == IF linked = {}
                  THEN accts \cup {[userId |-> id, provider |-> params.account.provider,
                                    providerAccountId |-> params.account.providerAccountId]}
                  ELSE accts
    IN signInResult(
         IF existingUser.twoFactorEnabled /\ existingUser.identityProvider = idP
         THEN loginWithTotp(existingUser.email) ELSE "true",
         "sameEmail", id, tbl, pwTbl, accts2)
  ELSE
    signInResult(proceed(existingUser), "changedEmail", id,
                 [tbl EXCEPT ![id].email = params.user.email], pwTbl, accts)

\* lines 571-610: a user exists for the provider id.  existingUser is the row
\* read before any update of this call
existingUserSignIn(tbl, pwTbl, accts, params, idP, id, existingUser) ==
  IF existingUser.email = params.user.email
  THEN
    LET linked == {a \in accts : a.userId = id /\ a.provider = params.account.provider}
        accts2 == IF linked = {}
                  THEN accts \cup {[userId |-> id, provider |-> params.account.provider,
                                    providerAccountId |-> params.account.providerAccountId]}
                  ELSE accts
    IN signInResult(
         IF existingUser.twoFactorEnabled /\ existingUser.identityProvider = idP
         THEN loginWithTotp(existingUser.email) ELSE "true",
         "sameEmail", id, tbl, pwTbl, accts2)
  ELSE
    LET userWithNewEmail == {i \in DOMAIN tbl : tbl[i].email = params.user.email}
    IN IF userWithNewEmail = {}
       THEN signInResult(proceed(existingUser), "changedEmail", id,
                         [tbl EXCEPT ![id].email = params.user.email], pwTbl, accts)
       ELSE signInResult("/auth/error?error=new-email-conflict", "newEmailConflict",
                         id, tbl, pwTbl, accts)

\* prisma update of a row's unique email: P2002 when another row holds it
emailTaken(tbl, id, email) == \E j \in DOMAIN tbl : j # id /\ tbl[j].email = email

\* lines 628-713: no user for the provider id, one with the incoming email
existingUserWithEmailSignIn(tbl, pwTbl, accts, e, params, idP, id, rnd) ==
  LET existingUserWithEmail == tbl[id]
  IN IF /\ ~e.hostedCal
        /\ existingUserWithEmail.emailVerified
        /\ existingUserWithEmail.identityProvider # CAL
     THEN signInResult(proceed(existingUserWithEmail), "autoMerge", id, tbl, pwTbl, accts)
     ELSE IF /\ pwTbl[id] = ""
             /\ ~existingUserWithEmail.emailVerified
             /\ existingUserWithEmail.username \in {Null, ""}
     THEN IF emailTaken(tbl, id, params.user.email)
          THEN signInResult("throw P2002", "invited", id, tbl, pwTbl, accts)
          ELSE signInResult(
                 proceed(existingUserWithEmail), "invited", id,
                 [tbl EXCEPT ![id].email = params.user.email,
                             ![id].username = usernameSlug(params.user.name, rnd),
                             ![id].emailVerified = TRUE,
                             ![id].name = params.user.name,
                             ![id].identityProvider = idP,
                             ![id].identityProviderId = params.account.providerAccountId],
                 pwTbl, accts)
     ELSE IF /\ existingUserWithEmail.identityProvider = CAL
             /\ idP \in {GOOGLE, SAML}
     THEN IF emailTaken(tbl, id, params.user.email)
          THEN signInResult("throw P2002", "convert", id, tbl, pwTbl, accts)
          ELSE signInResult(
                 proceed(existingUserWithEmail), "convert", id,
                 [tbl EXCEPT ![id].email = params.user.email,
                             ![id].identityProvider = idP,
                             ![id].identityProviderId = params.account.providerAccountId],
                 [pwTbl EXCEPT ![id] = ""], accts)
     ELSE IF existingUserWithEmail.identityProvider = CAL
     THEN signInResult("/auth/error?error=use-password-login", "usePasswordLogin",
                       id, tbl, pwTbl, accts)
     ELSE signInResult("/auth/error?error=use-identity-login", "useIdentityLogin",
                       id, tbl, pwTbl, accts)

\* lines 79-94: the organization the new user joins (0 = none) and the
\* local part of the email
checkIfUserShouldBelongToOrg(e, idP, email) ==
  [orgUsername |-> IF toLowerCase(email) = "u1@cal.test" THEN "u1" ELSE "u2",
   orgId |-> IF ~e.ORGANIZATIONS_AUTOLINK \/ idP # GOOGLE THEN 0 ELSE e.autoAcceptOrg]

\* the legacy creation, which stored the provider's user id as identityProviderId
createUserSignIn_LegacyId(tbl, pwTbl, accts, e, params, idP, rnd) ==
  LET org == checkIfUserShouldBelongToOrg(e, idP, params.user.email)
      newId == IF DOMAIN tbl = {} THEN 1
               ELSE 1 + (CHOOSE i \in DOMAIN tbl : \A j \in DOMAIN tbl : j <= i)
      newUser ==
        [email |-> params.user.email, name |-> params.user.name,
         username |-> IF org.orgId # 0 THEN slugify(org.orgUsername)
                      ELSE usernameSlug(params.user.name, rnd),
         locked |-> FALSE, identityProvider |-> idP,
         identityProviderId |-> params.user.id,
         twoFactorEnabled |-> FALSE, twoFactorSecret |-> <<>>, backupCodes |-> <<>>,
         emailVerified |-> TRUE, role |-> "USER",
         teams |-> IF org.orgId # 0
                   THEN <<[metadataValid |-> TRUE, subscriptionId |-> ""]>>
                   ELSE <<>>]
  IN signInResult(
       IF params.account.twoFactorEnabled THEN loginWithTotp(newUser.email) ELSE "true",
       "created", newId,
       [i \in DOMAIN tbl \cup {newId} |-> IF i = newId THEN newUser ELSE tbl[i]],
       [i \in DOMAIN tbl \cup {newId} |-> IF i = newId THEN "" ELSE pwTbl[i]],
       accts \cup {[userId |-> newId, provider |-> params.account.provider,
                    providerAccountId |-> params.account.providerAccountId]})

\* lines 715-746: no user for the provider id nor for the email
createUserSignIn(tbl, pwTbl, accts, e, params, idP, rnd) ==
  LET org == checkIfUserShouldBelongToOrg(e, idP, params.user.email)
      newId == IF DOMAIN tbl = {} THEN 1
               ELSE 1 + (CHOOSE i \in DOMAIN tbl : \A j \in DOMAIN tbl : j <= i)
      newUser ==
        [email |-> params.user.email, name |-> params.user.name,
         username |-> IF org.orgId # 0 THEN slugify(org.orgUsername)
                      ELSE usernameSlug(params.user.name, rnd),
         locked |-> FALSE, identityProvider |-> idP,
         identityProviderId |-> params.account.providerAccountId,
         twoFactorEnabled |-> FALSE, twoFactorSecret |-> <<>>, backupCodes |-> <<>>,
         emailVerified |-> TRUE, role |-> "USER",
         teams |-> IF org.orgId # 0
                   THEN <<[metadataValid |-> TRUE, subscriptionId |-> ""]>>
                   ELSE <<>>]
  IN signInResult(
       IF params.account.twoFactorEnabled THEN loginWithTotp(newUser.email) ELSE "true",
       "created", newId,
       [i \in DOMAIN tbl \cup {newId} |-> IF i = newId THEN newUser ELSE tbl[i]],
       [i \in DOMAIN tbl \cup {newId} |-> IF i = newId THEN "" ELSE pwTbl[i]],
       accts \cup {[userId |-> newId, provider |-> params.account.provider,
                    providerAccountId |-> params.account.providerAccountId]})

\* lines 520-747: the branch for an account with a provider
providerSignIn(tbl, pwTbl, accts, e, params, newest, rnd) ==
  LET idP == mapIdentityProvider(params.account.provider)
      byAccountId == findFirst({i \in DOMAIN tbl :
                                  /\ tbl[i].identityProvider = idP
                                  /\ tbl[i].identityProviderId =
                                       params.account.providerAccountId}, newest)
      byUserId == findFirst({i \in DOMAIN tbl :
                               /\ tbl[i].identityProvider = idP
                               /\ tbl[i].identityProviderId = params.user.id}, newest)
      existingUser == IF byAccountId # 0 THEN byAccountId ELSE byUserId
      tbl2 == IF byAccountId = 0 /\ byUserId # 0
              THEN [tbl EXCEPT ![byUserId].identityProviderId =
                                 params.account.providerAccountId]
              ELSE tbl
      existingUserWithEmail ==
        findFirst({i \in DOMAIN tbl :
                     toLowerCase(tbl[i].email) = toLowerCase(params.user.email)}, newest)
  IN IF ~params.user.email_verified /\ ~params.user.emailVerified /\ ~params.profile.present
     THEN signInResult("throw TypeError", "profile", 0, tbl, pwTbl, accts)
     ELSE IF ~(params.user.email_verified \/ params.user.emailVerified
               \/ params.profile.email_verified)
     THEN signInResult("/auth/error?error=unverified-email", "unverifiedEmail", 0,
                       tbl, pwTbl, accts)
     ELSE IF existingUser # 0
     THEN existingUserSignIn(tbl2, pwTbl, accts, params, idP, existingUser,
                             tbl[existingUser])
     ELSE IF existingUserWithEmail # 0
     THEN existingUserWithEmailSignIn(tbl, pwTbl, accts, e, params, idP,
                                      existingUserWithEmail, rnd)
     ELSE createUserSignIn(tbl, pwTbl, accts, e, params, idP, rnd)

\* lines 483-750
signIn(tbl, pwTbl, accts, e, params, newest, rnd) ==
  IF params.account.present /\ params.account.provider = "email"
  THEN signInResult("true", "email", 0, tbl, pwTbl, accts)
  ELSE IF ~(params.account.present /\ params.account.provider = "saml-idp")
          /\ params.account.present /\ params.account.type = "credentials"
  THEN signInResult("true", "credentials", 0, tbl, pwTbl, accts)
  ELSE IF ~(params.account.present /\ params.account.provider = "saml-idp")
          /\ ~(params.account.present /\ params.account.type = "oauth")
  THEN signInResult("false", "notOauth", 0, tbl, pwTbl, accts)
  ELSE IF params.user.email = ""
  THEN signInResult("false", "noEmail", 0, tbl, pwTbl, accts)
  ELSE IF params.user.name = ""
  THEN signInResult("false", "noName", 0, tbl, pwTbl, accts)
  ELSE IF params.account.present /\ params.account.provider # ""
  THEN providerSignIn(tbl, pwTbl, accts, e, params, newest, rnd)
  ELSE signInResult("false", "noProvider", 0, tbl, pwTbl, accts)

---------------------------------------------------------------------------
(* The inputs of signIn *)

Account(present, provider, type, providerAccountId) ==
  [present |-> present, provider |-> provider, type |-> type,
   providerAccountId |-> providerAccountId, twoFactorEnabled |-> FALSE]

\* the user object of the provider: user.id is the provider's own id of the
\* user, which legacy rows stored as identityProviderId
ProviderUser(email, name, verified) ==
  [id |-> "legacy-1", email |-> email, name |-> name,
   email_verified |-> verified, emailVerified |-> FALSE]

Profile(present, verified) == [present |-> present, email_verified |-> verified]

\* Google and SAML sign-ins whose email the provider vouches for, in the user
\* object or in the profile
OauthParams ==
  {[account |-> Account(TRUE, pt[1], pt[2], "g-1"),
    user |-> ProviderUser(email, "Ann Lee", v[1]),
    profile |-> Profile(v[2], v[3])] :
     pt \in {<<"google", "oauth">>, <<"saml-idp", "credentials">>},
     email \in {"u1@cal.test", "U1@cal.test", "u2@cal.test"},
     v \in {<<TRUE, FALSE, FALSE>>, <<FALSE, TRUE, TRUE>>}}

\* sign-ins whose email nobody vouches for: an unverified profile, no profile
UnverifiedParams ==
  {[account |-> Account(TRUE, pt[1], pt[2], "g-1"),
    user |-> ProviderUser("u1@cal.test", "Ann Lee", FALSE),
    profile |-> Profile(present, FALSE)] :
     pt \in {<<"google", "oauth">>, <<"saml", "oauth">>},
     present \in BOOLEAN}

\* the calls that return before any lookup: no account, the email and
\* credentials providers, another account type, no provider, no email, no name
EarlyParams ==
  {[account |-> a, user |-> ProviderUser("u1@cal.test", "Ann Lee", TRUE),
    profile |-> Profile(FALSE, FALSE)] :
     a \in {Account(FALSE, "", "", ""), Account(TRUE, "email", "email", "u1@cal.test"),
            Account(TRUE, "credentials", "credentials", "1"),
            Account(TRUE, "webauthn", "webauthn", "w-1"),
            Account(TRUE, "", "oauth", "g-1")}}
  \cup
  {[account |-> Account(TRUE, "google", "oauth", "g-1"), user |-> u,
    profile |-> Profile(TRUE, TRUE)] :
     u \in {ProviderUser("", "Ann Lee", TRUE), ProviderUser("u1@cal.test", "", TRUE)}}

SignInParams == OauthParams \cup UnverifiedParams \cup EarlyParams

\* the callback as NextAuth runs it.  A call that would create a user beyond
\* MaxUsers is outside the model.
SignIn ==
  \E params \in SignInParams, newest \in BOOLEAN :
    \E r \in {signIn(users, userPassword, accounts, env, params, newest, "x7k2m9")} :
      /\ DOMAIN r.users \subseteq UserIds
      /\ users' = r.users
      /\ userPassword' = r.userPassword
      /\ accounts' = r.accounts
      /\ last' = [op |-> "signIn", params |-> params, result |-> r.result,
                  path |-> r.path, matched |-> r.matched,
                  usersBefore |-> users, userPasswordBefore |-> userPassword]
      /\ converted' = IF r.path = "convert" /\ r.result # "throw P2002"
                      THEN converted \cup {r.matched} ELSE converted
      /\ created' = IF r.path = "created"
                    THEN created \cup
                           {[id |-> r.matched,
                             identityProvider |->
                               mapIdentityProvider(params.account.provider),
                             identityProviderId |-> params.account.providerAccountId]}
                    ELSE created
      /\ UNCHANGED <<CACHE, env, consumed, resolved>>

\* the stored user the sign-ins are about: with Google, SAML or password
\* identity, with or without two-factor, a full member, an invited
\* placeholder or a member whose email is not verified
SubjectRows ==
  {UserRow("u1@cal.test", FALSE, ip[1], ip[2], tfa, <<>>, <<>>,
           kind = "member", IF kind = "invited" THEN Null ELSE "ann", "USER", <<>>) :
     ip \in {<<CAL, Null>>, <<GOOGLE, "g-1">>, <<GOOGLE, "legacy-1">>,
             <<GOOGLE, "g-0">>, <<SAML, "g-1">>},
     tfa \in BOOLEAN,
     kind \in {"member", "invited", "unverified"}}

\* the subject, alone or beside a second password user
InitSignIn ==
  /\ \E row \in SubjectRows, second \in BOOLEAN :
       /\ users = IF second
                  THEN (1 :> row) @@ (2 :> PlainRow(2, <<>>))
                  ELSE (1 :> row)
       /\ userPassword =
            LET h == IF row.identityProvider = CAL /\ row.username # Null
                     THEN hashPassword("hunter2") ELSE ""
            IN IF second THEN (1 :> h) @@ (2 :> hashPassword("hunter2")) ELSE (1 :> h)
  /\ accounts = {}
  /\ CACHE = <<>>
  /\ \E hosted \in BOOLEAN : env = Env("k1", TRUE, FALSE, FALSE, hosted)
  /\ consumed = [id \in UserIds |-> {}]
  /\ resolved = {}
  /\ converted = {}
  /\ created = {}
  /\ last = NoCall

NextSignIn == SignIn

SpecSignIn == InitSignIn /\ [][NextSignIn]_vars

---------------------------------------------------------------------------
(* The role authorize hands out, next-auth-options.ts:211-239 *)

\* a user or an admin, with a password or a provider identity, with or
\* without two-factor, whose password is weak or meets the admin rules, on a
\* production, development or E2E deployment
InitRole ==
  /\ \E role \in {"USER", "ADMIN"}, idp \in {CAL, GOOGLE}, tfa \in BOOLEAN :
       users = (1 :> UserRow("u1@cal.test", FALSE, idp,
                             IF idp = CAL THEN Null ELSE "g-1", tfa,
                             IF tfa THEN symmetricEncrypt("secret32", "k1") ELSE <<>>,
                             IF tfa THEN symmetricEncrypt(JSON_stringify(<<"c1">>), "k1")
                                    ELSE <<>>,
                             TRUE, "ann", role, <<>>))
  /\ \E pw \in {"hunter2", "Str0ng-Passw0rd-15"} :
       userPassword = (1 :> hashPassword(pw))
  /\ accounts = {}
  /\ CACHE = <<>>
  /\ \E e2e \in BOOLEAN, dev \in BOOLEAN : env = Env("k1", TRUE, e2e, dev, TRUE)
  /\ consumed = [id \in UserIds |-> {}]
  /\ resolved = {}
  /\ converted = {}
  /\ created = {}
  /\ last = NoCall

NextRole == Authorize

SpecRole == InitRole /\ [][NextRole]_vars

---------------------------------------------------------------------------
(* A password user who signs in with Google or SAML and then again with the
   credentials form: signIn (lines 672-710) followed by authorize (107-240) *)

\* a password user, locked or not, with a verified e-mail or not, that the
\* provider sign-ins are about
InitLinking ==
  /\ \E row \in {r \in SubjectRows : r.identityProvider = CAL /\ r.username # Null},
        locked \in BOOLEAN :
       /\ users = (1 :> [row EXCEPT !.locked = locked])
       /\ userPassword = (1 :> hashPassword("hunter2"))
  /\ accounts = {}
  /\ CACHE = <<>>
  /\ \E hosted \in BOOLEAN : env = Env("k1", TRUE, FALSE, FALSE, hosted)
  /\ consumed = [id \in UserIds |-> {}]
  /\ resolved = {}
  /\ converted = {}
  /\ created = {}
  /\ last = NoCall

NextLinking == SignIn \/ Authorize

SpecLinking == InitLinking /\ [][NextLinking]_vars

---------------------------------------------------------------------------
(* AUTH_OPTIONS.callbacks.redirect, next-auth-options.ts:754-760 *)

\* String.prototype.startsWith
startsWith(s, prefix) ==
  Len(s) >= Len(prefix) /\ SubSeq(s, 1, Len(prefix)) = prefix

\* the first position from i on at which s has one of the characters cs; 0 = none
RECURSIVE findChar(_, _, _)
findChar(s, cs, i) ==
  IF i > Len(s) THEN 0
  ELSE IF SubSeq(s, i, i) \in cs THEN i
  ELSE findChar(s, cs, i + 1)

\* the last position at which s has the character c; 0 = none
RECURSIVE lastChar(_, _, _)
lastChar(s, c, i) ==
  IF i < 1 THEN 0
  ELSE IF SubSeq(s, i, i) = c THEN i
  ELSE lastChar(s, c, i - 1)

\* new URL(url) without base, for lower-case input: a scheme up to the first
\* ":", then for "//" an authority up to the next "/", "?" or "#", of which
\* the hostname is what follows the last "@" and precedes the port.  A string
\* without scheme, or with "//" and an empty hostname, does not parse (new URL
\* throws a TypeError)
URL(url) ==
  LET colon == findChar(url, {":"}, 1)
      delim == findChar(url, {"/", "?", "#"}, 1)
  IN IF colon <= 1 \/ (delim # 0 /\ delim < colon)
     THEN [valid |-> FALSE, hostname |-> ""]
     ELSE IF ~startsWith(SubSeq(url, colon + 1, Len(url)), "//")
     THEN [valid |-> TRUE, hostname |-> ""]
     ELSE
       LET end == findChar(url, {"/", "?", "#"}, colon + 3)
           authority == SubSeq(url, colon + 3,
                               IF end = 0 THEN Len(url) ELSE end - 1)
           hostport == SubSeq(authority, lastChar(authority, "@", Len(authority)) + 1,
                              Len(authority))
           port == findChar(hostport, {":"}, 1)
           hostname == IF port = 0 THEN hostport ELSE SubSeq(hostport, 1, port - 1)
       IN [valid |-> hostname # "", hostname |-> hostname]

\* what a call of the callback reports
redirectResult(outcome, value) == [outcome |-> outcome, value |-> value]

\* the callback that lets every absolute URL through
redirect_AnyAbsolute(url, baseUrl, WEBAPP_URL) ==
  IF startsWith(url, "/") THEN redirectResult("return", baseUrl \o url)
  ELSE IF ~URL(url).valid THEN redirectResult("throw", "TypeError")
  ELSE redirectResult("return", url)

\* lines 754-760
redirect(url, baseUrl, WEBAPP_URL) ==
  IF startsWith(url, "/") THEN redirectResult("return", baseUrl \o url)
  ELSE IF ~URL(url).valid \/ ~URL(WEBAPP_URL).valid
  THEN redirectResult("throw", "TypeError")
  ELSE IF URL(url).hostname = URL(WEBAPP_URL).hostname
  THEN redirectResult("return", url)
  ELSE redirectResult("return", baseUrl)

\* callback URLs a request can carry: absolute ones on the own and on foreign
\* hosts, relative ones, and strings that are no URL
AbsoluteUrls ==
  {scheme \o authority \o path :
     scheme \in {"https://", "http://"},
     authority \in {"app.cal.test", "app.cal.test:8080", "localhost:3000",
                    "evil.test", "app.cal.test@evil.test", "app.cal.test.evil.test"},
     path \in {"", "/bookings", "?next=https://app.cal.test"}}

RelativeUrls == {"/", "/event-types", "//evil.test/x", "/@evil.test"}

OtherUrls == {"", "dashboard", "app.cal.test/bookings", "javascript:alert(1)",
              "mailto:ann@app.cal.test"}

CallbackUrls == AbsoluteUrls \cup RelativeUrls \cup OtherUrls

\* the origin NextAuth passes as baseUrl
BaseUrls == {"https://app.cal.test", "http://localhost:3000"}

\* the callback as NextAuth runs it
Redirect ==
  \E url \in CallbackUrls, baseUrl \in BaseUrls :
    \E r \in {redirect(url, baseUrl, env.WEBAPP_URL)} :
      /\ last' = [op |-> "redirect", url |-> url, baseUrl |-> baseUrl,
                  outcome |-> r.outcome, value |-> r.value]
      /\ UNCHANGED <<users, userPassword, accounts, CACHE, env, consumed,
                     resolved, converted, created>>

InitRedirect ==
  /\ users = <<>>
  /\ userPassword = <<>>
  /\ accounts = {}
  /\ CACHE = <<>>
  /\ \E w \in BaseUrls :
       env = [Env("k1", TRUE, FALSE, FALSE, TRUE) EXCEPT !.WEBAPP_URL = w]
  /\ consumed = [id \in UserIds |-> {}]
  /\ resolved = {}
  /\ converted = {}
  /\ created = {}
  /\ last = NoCall

NextRedirect == Redirect

SpecRedirect == InitRedirect /\ [][NextRedirect]_vars

---------------------------------------------------------------------------
(* EmailProvider, next-auth-options.ts:385-401 *)

\* lines 386-391 and 395-400: the options of the email provider; maxAge is in
\* seconds
EmailProvider == [type |-> "email", maxAge |-> 10 * 60 * 60]

\* the times, in seconds, at which a magic link is requested
RequestTimes == {60 * m : m \in 0..9}

\* the ages, in seconds, at which a magic link is followed
LinkAges == {0, 300, 599, 600, 601, 3600, 35999, 36000, 36001, 86400}

\* a sign-in by e-mail is requested: NextAuth issues a verification token
\* that expires maxAge seconds later and has the link sent
SendVerificationRequest ==
  \E now \in RequestTimes :
    /\ last' = [op |-> "sendVerificationRequest", issuedAt |-> now,
                expires |-> now + EmailProvider.maxAge]
    /\ UNCHANGED <<users, userPassword, accounts, CACHE, env, consumed,
                   resolved, converted, created>>

\* the link is followed: NextAuth accepts the token unless it has expired
UseMagicLink ==
  /\ last.op \in {"sendVerificationRequest", "useMagicLink"}
  /\ \E age \in LinkAges :
       last' = [op |-> "useMagicLink", issuedAt |-> last.issuedAt,
                expires |-> last.expires, now |-> last.issuedAt + age,
                accepted |-> ~(last.expires < last.issuedAt + age)]
  /\ UNCHANGED <<users, userPassword, accounts, CACHE, env, consumed,
                 resolved, converted, created>>

InitMagicLink == InitRedirect

NextMagicLink == SendVerificationRequest \/ UseMagicLink

SpecMagicLink == InitMagicLink /\ [][NextMagicLink]_vars

---------------------------------------------------------------------------
(* Properties of authorize *)

\* the last callback was authorize and its e-mail matched a stored user
AuthorizedFor == last.op = "authorize" /\ last.userId # 0

\* the stored backup codes of the matched user before the last call
CodesBefore ==
  IF last.backupBefore = <<>> THEN <<>>
  ELSE JSON_parse(symmetricDecrypt(last.backupBefore, env.CALENDSO_ENCRYPTION_KEY))

\* the backup code the last call presented, as the code compares it
PresentedCode == replaceAllDashes(last.credentials.backupCode)

\* the presented backup code is one of the stored unused codes
BackupCodeMatches ==
  /\ last.credentials.backupCode # ""
  /\ \E i \in 1..Len(CodesBefore) :
       CodesBefore[i] # Null /\ CodesBefore[i] = PresentedCode

\* the presented TOTP code passes the check against the user's secret
TotpPasses ==
  /\ last.credentials.totpCode # ""
  /\ users[last.userId].twoFactorSecret # <<>>
  /\ totpAuthenticatorCheck(
       last.credentials.totpCode,
       symmetricDecrypt(users[last.userId].twoFactorSecret, env.CALENDSO_ENCRYPTION_KEY))

\* the supplied password does not verify against the user's stored hash
WrongPassword ==
  ~verifyPassword(last.credentials.password, userPassword[last.userId])

(* C2: for every user with a stored password hash, authorize returns a user
   object only if the supplied password verifies against that hash, whatever
   totpCode and backupCode are supplied and whether or not two-factor is on.
   The code skips the password check whenever a totpCode is supplied. *)
C2_PasswordAlwaysVerified ==
  (AuthorizedFor /\ last.outcome = "ok" /\ userPassword[last.userId] # "")
    => ~WrongPassword

(* C3 as stated: with two-factor enabled authorize returns a user object only
   on a matching backup code or a passing TOTP code; with neither supplied it
   fails with SecondFactorRequired, with a wrong TOTP code with
   IncorrectTwoFactorCode, with a non-matching backup code with
   IncorrectBackupCode.  Read for a user that is not locked, a call the rate
   limit lets through and a deployment with its encryption key. *)
C3_AsStated ==
  ( /\ AuthorizedFor /\ users[last.userId].twoFactorEnabled
    /\ ~users[last.userId].locked /\ ~last.limited
    /\ env.CALENDSO_ENCRYPTION_KEY # "" ) =>
    /\ last.outcome = "ok" => (BackupCodeMatches \/ TotpPasses)
    /\ (last.credentials.totpCode = "" /\ last.credentials.backupCode = "")
         => last.error = "SecondFactorRequired"
    /\ (last.credentials.totpCode # "" /\ ~TotpPasses)
         => last.error = "IncorrectTwoFactorCode"
    /\ (last.credentials.backupCode # "" /\ ~BackupCodeMatches)
         => last.error = "IncorrectBackupCode"

(* C3 amended: with two-factor enabled authorize returns a user object only
   on a matching backup code or a passing TOTP code.  The three errors are
   those of a call that has passed the lock, rate-limit, identity-provider and
   password checks: SecondFactorRequired with neither code supplied;
   IncorrectTwoFactorCode with no backup code and a TOTP code that fails
   against a stored 32-character secret (encryption key set);
   IncorrectBackupCode with a backup code that matches none of the stored
   codes (codes stored, encryption key set). *)
C3_SecondFactorRequired ==
  (AuthorizedFor /\ users[last.userId].twoFactorEnabled) =>
    /\ last.outcome = "ok" => (BackupCodeMatches \/ TotpPasses)
    /\ last.stage \in {"secondFactor", "done"} =>
         /\ (last.credentials.totpCode = "" /\ last.credentials.backupCode = "")
              => last.error = "SecondFactorRequired"
         /\ ( /\ last.credentials.backupCode = ""
              /\ last.credentials.totpCode # ""
              /\ ~TotpPasses
              /\ env.CALENDSO_ENCRYPTION_KEY # ""
              /\ users[last.userId].twoFactorSecret # <<>>
              /\ secretLength(symmetricDecrypt(users[last.userId].twoFactorSecret,
                                               env.CALENDSO_ENCRYPTION_KEY))
                   = TotpSecretLength )
              => last.error = "IncorrectTwoFactorCode"
         /\ ( /\ last.credentials.backupCode # ""
              /\ ~BackupCodeMatches
              /\ env.CALENDSO_ENCRYPTION_KEY # ""
              /\ last.backupBefore # <<>> )
              => last.error = "IncorrectBackupCode"

\* a two-factor user signed in with a passing TOTP code and no backup code
C3_Witness ==
  /\ AuthorizedFor /\ users[last.userId].twoFactorEnabled
  /\ last.outcome = "ok" /\ TotpPasses /\ last.credentials.backupCode = ""

\* authorize accepted a backup code in the last call
BackupCodeAccepted ==
  /\ AuthorizedFor /\ last.outcome = "ok"
  /\ users[last.userId].twoFactorEnabled
  /\ last.credentials.backupCode # ""

\* the stored codes now: those before with the first slot holding the
\* presented code set to null
FirstSlotNulled ==
  LET now == JSON_parse(symmetricDecrypt(users[last.userId].backupCodes,
                                         env.CALENDSO_ENCRYPTION_KEY))
      i == indexOf(CodesBefore, PresentedCode)
  IN /\ i # 0
     /\ Len(now) = Len(CodesBefore)
     /\ now[i] = Null
     /\ \A j \in 1..Len(now) : j # i => now[j] = CodesBefore[j]

(* C4 as stated: an accepted backup code has its slot set to null (the other
   slots and the length unchanged), any later authorize call for the same
   user presenting it (and let through by the rate limit) fails with
   IncorrectBackupCode, and a call whose code matches no stored code leaves
   the stored codes unchanged. *)
C4_AsStated ==
  /\ BackupCodeAccepted => FirstSlotNulled
  /\ (AuthorizedFor /\ last.reused /\ ~last.limited)
       => (last.outcome = "throw" /\ last.error = "IncorrectBackupCode")
  /\ (AuthorizedFor /\ ~BackupCodeMatches)
       => users[last.userId].backupCodes = last.backupBefore

(* C4 amended: an accepted backup code has the first slot holding it set to
   null (the other slots and the length unchanged); a later authorize call for
   the same user presenting it, when no other slot holds the same code, never
   returns a user object, and fails with IncorrectBackupCode unless the lock,
   rate-limit, identity-provider or password check rejects it first; a call
   whose code matches no stored code leaves the stored codes unchanged. *)
C4_BackupCodeSingleUse ==
  /\ BackupCodeAccepted => FirstSlotNulled
  /\ (AuthorizedFor /\ last.reused /\ ~BackupCodeMatches) =>
       /\ last.outcome = "throw"
       /\ last.stage = "secondFactor" => last.error = "IncorrectBackupCode"
  /\ (AuthorizedFor /\ ~BackupCodeMatches)
       => users[last.userId].backupCodes = last.backupBefore

\* a code accepted earlier is presented again and refused
C4_Witness ==
  /\ AuthorizedFor /\ last.reused /\ ~BackupCodeMatches
  /\ last.error = "IncorrectBackupCode"
  /\ \E i \in 1..Len(CodesBefore) : CodesBefore[i] = Null

(* C5: when the user found for the e-mail is locked, authorize fails with
   UserAccountLocked and returns no user object, whatever the password and
   second factor; the rate limit is not consulted and nothing is written. *)
C5_LockedUsersCannotLogin ==
  (AuthorizedFor /\ users[last.userId].locked) =>
    /\ last.outcome = "throw"
    /\ last.error = "UserAccountLocked"
    /\ last.returned = NoUser
    /\ ~last.rateLimitChecked
    /\ last.dbWrites = 0
    /\ users[last.userId].backupCodes = last.backupBefore

\* a locked user presented the right password and a passing TOTP code
C5_Witness ==
  /\ AuthorizedFor /\ users[last.userId].locked
  /\ users[last.userId].twoFactorEnabled
  /\ userPassword[last.userId] # "" /\ ~WrongPassword /\ TotpPasses
  /\ last.error = "UserAccountLocked"

\* the last call was a login attempt without a second-factor code
NoSecondFactorAttempt ==
  /\ last.op = "authorize" /\ last.credentials.given
  /\ last.credentials.totpCode = "" /\ last.credentials.backupCode = ""

(* C6 as stated: an attempt with an unknown e-mail and an attempt with a known
   e-mail and a wrong password, both without second-factor code, end in the
   same error IncorrectEmailPassword, whatever the user's locked flag,
   identity provider and two-factor settings (the rate limit letting the
   call through). *)
C6_AsStated ==
  NoSecondFactorAttempt =>
    /\ last.userId = 0 => last.error = "IncorrectEmailPassword"
    /\ (last.userId # 0 /\ WrongPassword /\ ~last.limited)
         => last.error = "IncorrectEmailPassword"

(* C6 amended: the two attempts end in the same error IncorrectEmailPassword
   when the existing user is not locked, has identity provider CAL and the
   rate limit does not reject the call, whatever the two-factor settings. *)
C6_NoLeak ==
  NoSecondFactorAttempt =>
    /\ last.userId = 0 => last.error = "IncorrectEmailPassword"
    /\ ( /\ last.userId # 0 /\ WrongPassword
         /\ ~users[last.userId].locked
         /\ users[last.userId].identityProvider = CAL
         /\ ~last.limited )
         => last.error = "IncorrectEmailPassword"

\* a wrong password for an unlocked CAL user with two-factor enabled
C6_Witness ==
  /\ NoSecondFactorAttempt /\ last.userId # 0 /\ WrongPassword
  /\ userPassword[last.userId] # ""
  /\ ~users[last.userId].locked
  /\ users[last.userId].identityProvider = CAL
  /\ users[last.userId].twoFactorEnabled
  /\ last.error = "IncorrectEmailPassword"

---------------------------------------------------------------------------
(* Properties of getServerSession *)

SessionCall == last.op = "getServerSession"

\* the user row the last call's payload names, when there is one
PayloadUserExists ==
  last.payload.kind = "session" /\ last.payload.id \in DOMAIN users

(* C1: getServerSession caches its result under the stringified payload: after
   a call that resolved a session for payload P the cache holds it under
   JSON.stringify(P), and a later call with the same key returns the cached
   session without querying the user table.  The code never writes CACHE. *)
C1_SessionCached ==
  SessionCall =>
    /\ last.outcome = "session" =>
         /\ JSON_stringify(last.payload) \in DOMAIN CACHE
         /\ CACHE[JSON_stringify(last.payload)] = last.session
    /\ last.repeat => (last.outcome = "session" /\ last.dbReads = 0)

(* C7: getServerSession returns null and adds nothing to the cache when the
   upstream payload is falsy or no user has the id the payload carries; for a
   falsy payload neither the cache nor the user table is consulted. *)
C7_NullSession ==
  (SessionCall /\ (last.payload.kind = "falsy"
                   \/ (last.payload.kind = "session" /\ ~PayloadUserExists))) =>
    /\ last.outcome = "null"
    /\ DOMAIN CACHE = last.cacheKeysBefore
    /\ last.payload.kind = "falsy" => (last.cacheReads = 0 /\ last.dbReads = 0)

\* a payload naming a missing user was answered with null after a table read
C7_Witness ==
  /\ SessionCall /\ last.payload.kind = "session" /\ ~PayloadUserExists
  /\ last.outcome = "null" /\ last.dbReads = 1

(* C8: every session getServerSession returns has upId "usr-" followed by the
   id of the user in the upstream payload, that id is session.user.id, and
   profileId is null. *)
C8_UpIdOfSession ==
  (SessionCall /\ last.outcome = "session") =>
    /\ last.session.upId = "usr-" \o ToString(last.payload.id)
    /\ last.session.user.id = last.payload.id
    /\ last.session.profileId = Null

\* a session was returned for the second stored user
C8_Witness ==
  /\ SessionCall /\ last.outcome = "session"
  /\ last.payload.id = 2 /\ last.session.upId = "usr-2"

(* C9: session.user.belongsToActiveTeam is true exactly when the resolved user
   belongs to an active team, as checkIfUserBelongsToActiveTeam decides over
   the user's memberships.  The code sets the field to the literal true. *)
C9_TeamMembershipDerived ==
  (SessionCall /\ last.outcome = "session") =>
    (last.session.user.belongsToActiveTeam
       <=> checkIfUserBelongsToActiveTeam(users[last.payload.id],
                                          env.IS_TEAM_BILLING_ENABLED))

---------------------------------------------------------------------------
(* Properties of signIn *)

\* the last callback was a Google/SAML sign-in that resolved to a user that
\* was already stored
ResolvedToExistingUser ==
  /\ last.op = "signIn"
  /\ last.matched # 0
  /\ last.matched \in DOMAIN last.usersBefore

\* the branches that let the resolved user in: same email, changed email,
\* self-hosted auto-merge, invited user, CAL-to-IdP conversion
AcceptingPaths == {"sameEmail", "changedEmail", "autoMerge", "invited", "convert"}

\* the value is the TOTP login redirect for some stored email
IsTotpRedirect(result) ==
  \E id \in DOMAIN last.usersBefore :
    result = "/auth/login?totp=" \o last.usersBefore[id].email

(* C10: when a Google/SAML sign-in resolves to an already stored user with
   twoFactorEnabled, signIn never returns true, and on each accepting path
   (same email, changed email, auto-merge, invited user, conversion) the value
   it returns is the TOTP login redirect; the only other end of such a path is
   the database refusing the update of the row. *)
C10_SecondFactorOnProviderSignIn ==
  (ResolvedToExistingUser /\ last.usersBefore[last.matched].twoFactorEnabled) =>
    /\ last.result # "true"
    /\ last.path \in AcceptingPaths =>
         (IsTotpRedirect(last.result) \/ last.result = "throw P2002")

\* a password user with two-factor enabled was converted to the provider and
\* sent to the TOTP login
C10_Witness ==
  /\ ResolvedToExistingUser /\ last.usersBefore[last.matched].twoFactorEnabled
  /\ last.path = "convert"
  /\ last.result = "/auth/login?totp=u1@cal.test"

\* each accepting path is taken by a user with two-factor enabled
C10_PathReached(path) ==
  /\ ResolvedToExistingUser /\ last.usersBefore[last.matched].twoFactorEnabled
  /\ last.path = path /\ IsTotpRedirect(last.result)

C10_SameEmail == C10_PathReached("sameEmail")
C10_ChangedEmail == C10_PathReached("changedEmail")
C10_AutoMerge == C10_PathReached("autoMerge")
C10_Invited == C10_PathReached("invited")
C10_P2002 == last.op = "signIn" /\ last.result = "throw P2002"

---------------------------------------------------------------------------
(* Properties of signIn followed by authorize *)

\* the provider of the last sign-in, as signIn maps it
LastIdP == mapIdentityProvider(last.params.account.provider)

\* the last callback was a Google/SAML sign-in that went past the early
\* returns with an e-mail the provider vouches for
VerifiedProviderSignIn ==
  /\ last.op = "signIn"
  /\ last.params \in OauthParams \cup UnverifiedParams
  /\ \/ last.params.user.email_verified
     \/ last.params.user.emailVerified
     \/ last.params.profile.present /\ last.params.profile.email_verified

\* before the call no stored user had the provider id of the sign-in
NoUserForProviderId ==
  \A i \in DOMAIN last.usersBefore :
    ~ /\ last.usersBefore[i].identityProvider = LastIdP
      /\ last.usersBefore[i].identityProviderId
           \in {last.params.account.providerAccountId, last.params.user.id}

\* the call found a stored user by the incoming e-mail, compared without case
FoundByEmail ==
  /\ VerifiedProviderSignIn /\ NoUserForProviderId
  /\ last.matched \in DOMAIN last.usersBefore
  /\ toLowerCase(last.usersBefore[last.matched].email)
       = toLowerCase(last.params.user.email)

\* the user found was an invited placeholder: no hash, no verified e-mail,
\* no username
WasInvited ==
  /\ last.userPasswordBefore[last.matched] = ""
  /\ ~last.usersBefore[last.matched].emailVerified
  /\ last.usersBefore[last.matched].username \in {Null, ""}

\* the case of C11: the user found by e-mail is a password user
PasswordUserFound ==
  /\ FoundByEmail
  /\ last.usersBefore[last.matched].identityProvider = CAL
  /\ ~WasInvited

\* the user now carries the provider and provider account id of the sign-in
\* and has no password record
NowProviderUser ==
  /\ users[last.matched].identityProvider = LastIdP
  /\ users[last.matched].identityProviderId = last.params.account.providerAccountId
  /\ userPassword[last.matched] = ""

\* a credentials login without TOTP code for a user signIn has converted,
\* not rejected by the lock or the rate limit
LoginAfterConversion ==
  /\ AuthorizedFor /\ last.userId \in converted
  /\ last.credentials.totpCode = ""

(* C11 as stated: when the sign-in finds a password user by e-mail, the user
   gets the incoming provider and provider account id and loses the password
   record; a later credentials login of that user without TOTP code never
   returns a user and, the lock and the rate limit letting it through, fails
   with ThirdPartyIdentityProviderEnabled.  The code lets the update of the
   row fail on the unique e-mail and then converts nothing. *)
C11_AsStated ==
  /\ PasswordUserFound => NowProviderUser
  /\ LoginAfterConversion =>
       /\ last.outcome = "throw"
       /\ (~users[last.userId].locked /\ ~last.limited)
            => last.error = "ThirdPartyIdentityProviderEnabled"

(* C11 in the code: the conversion happens unless another user record holds
   the incoming e-mail in exactly the incoming spelling; then the database
   refuses the update, signIn throws and no record changes.  The later login
   is as stated. *)
C11_AutoLink ==
  /\ PasswordUserFound =>
       IF emailTaken(last.usersBefore, last.matched, last.params.user.email)
       THEN /\ last.result = "throw P2002"
            /\ users = last.usersBefore
            /\ userPassword = last.userPasswordBefore
       ELSE /\ NowProviderUser
            /\ users[last.matched].email = last.params.user.email
            /\ last.matched \in converted
  /\ LoginAfterConversion =>
       /\ last.outcome = "throw"
       /\ (~users[last.userId].locked /\ ~last.limited)
            => last.error = "ThirdPartyIdentityProviderEnabled"

\* the converted user tries the old password and is sent to the provider
C11_Witness ==
  /\ LoginAfterConversion
  /\ last.credentials.password = "hunter2"
  /\ userPassword[last.userId] = ""
  /\ last.error = "ThirdPartyIdentityProviderEnabled"

---------------------------------------------------------------------------
(* Properties of the branches of signIn *)

\* the last sign-in found its user by (identityProvider, identityProviderId)
FoundByProviderId ==
  /\ VerifiedProviderSignIn
  /\ last.matched \in DOMAIN last.usersBefore
  /\ last.usersBefore[last.matched].identityProvider = LastIdP
  /\ last.usersBefore[last.matched].identityProviderId
       \in {last.params.account.providerAccountId, last.params.user.id}

\* ... and the incoming e-mail differs from the stored one
EmailChanged ==
  /\ FoundByProviderId
  /\ last.usersBefore[last.matched].email # last.params.user.email

\* some stored user already had the incoming e-mail
IncomingEmailHeld ==
  \E i \in DOMAIN last.usersBefore :
    last.usersBefore[i].email = last.params.user.email

(* C12: when the user found by provider id has another e-mail than the
   incoming one, then if some user record already has the incoming e-mail
   signIn returns "/auth/error?error=new-email-conflict" and changes no
   user's e-mail; otherwise it updates exactly that user's e-mail to the
   incoming one and lets the sign-in proceed: true, or the TOTP redirect when
   the user has two-factor enabled. *)
C12_ChangedEmail ==
  EmailChanged =>
    /\ DOMAIN users = DOMAIN last.usersBefore
    /\ IF IncomingEmailHeld
       THEN /\ last.result = "/auth/error?error=new-email-conflict"
            /\ \A i \in DOMAIN users : users[i].email = last.usersBefore[i].email
       ELSE /\ users[last.matched].email = last.params.user.email
            /\ \A i \in DOMAIN users \ {last.matched} :
                 users[i].email = last.usersBefore[i].email
            /\ last.result =
                 IF last.usersBefore[last.matched].twoFactorEnabled
                 THEN loginWithTotp(last.usersBefore[last.matched].email)
                 ELSE "true"

\* a sign-in with an e-mail another user holds was turned away
C12_Witness ==
  /\ EmailChanged /\ IncomingEmailHeld
  /\ last.result = "/auth/error?error=new-email-conflict"
  /\ users = last.usersBefore

\* the e-mail of a two-factor user was updated
C12_Updated ==
  /\ EmailChanged /\ ~IncomingEmailHeld
  /\ last.usersBefore[last.matched].twoFactorEnabled
  /\ users[last.matched].email = last.params.user.email

\* before the call no stored user had the incoming e-mail, compared
\* without case
NoUserForEmail ==
  \A i \in DOMAIN last.usersBefore :
    toLowerCase(last.usersBefore[i].email) # toLowerCase(last.params.user.email)

\* the account record of the last sign-in for user id
AccountOf(id) ==
  [userId |-> id, provider |-> last.params.account.provider,
   providerAccountId |-> last.params.account.providerAccountId]

\* an earlier sign-in created a user for the provider account of this one
CreatedEarlier ==
  {c \in created : /\ c.id \in DOMAIN last.usersBefore
                    /\ c.identityProvider = LastIdP
                    /\ c.identityProviderId = last.params.account.providerAccountId}

(* C13: a sign-in with a verified e-mail, no user for the provider id and none
   for the e-mail creates exactly one user, with the mapped provider, the
   provider account id and the incoming e-mail, links the account to it and
   returns true; a later sign-in with the same provider account finds that
   user and creates no user. *)
C13_NewAccount ==
  /\ (VerifiedProviderSignIn /\ NoUserForProviderId /\ NoUserForEmail) =>
       /\ Cardinality(DOMAIN users \ DOMAIN last.usersBefore) = 1
       /\ \A i \in DOMAIN last.usersBefore :
            i \in DOMAIN users /\ users[i] = last.usersBefore[i]
       /\ last.matched \in DOMAIN users \ DOMAIN last.usersBefore
       /\ users[last.matched].identityProvider = LastIdP
       /\ users[last.matched].identityProviderId
            = last.params.account.providerAccountId
       /\ users[last.matched].email = last.params.user.email
       /\ AccountOf(last.matched) \in accounts
       /\ last.result = "true"
  /\ (VerifiedProviderSignIn /\ CreatedEarlier # {}) =>
       /\ \E c \in CreatedEarlier : last.matched = c.id
       /\ DOMAIN users = DOMAIN last.usersBefore

\* the user an earlier sign-in created signs in again and is found
C13_Witness ==
  /\ VerifiedProviderSignIn /\ CreatedEarlier # {}
  /\ last.path = "sameEmail" /\ last.result = "true"
  /\ Cardinality(DOMAIN users) = 2

\* a sign-in has just created a user
C13_Created ==
  /\ VerifiedProviderSignIn /\ NoUserForProviderId /\ NoUserForEmail
  /\ last.matched \in DOMAIN users \ DOMAIN last.usersBefore

---------------------------------------------------------------------------
(* Properties of redirect *)

\* the last callback was redirect
RedirectCall == last.op = "redirect"

\* the hosts a redirect may point to
OwnHostnames == {URL(last.baseUrl).hostname, URL(env.WEBAPP_URL).hostname}

\* the returned URL points to the host of baseUrl or of WEBAPP_URL
StaysOnOwnHost ==
  last.outcome = "return" =>
    (URL(last.value).valid /\ URL(last.value).hostname \in OwnHostnames)

(* C14 as stated: for a url starting with "/" redirect returns baseUrl
   followed by url, for a url whose hostname is that of WEBAPP_URL it returns
   url unchanged, and for every other url it returns baseUrl; the returned URL
   never points to another host than that of baseUrl or WEBAPP_URL. *)
C14_AsStated ==
  RedirectCall =>
    /\ last.outcome = "return"
    /\ last.value =
         IF startsWith(last.url, "/") THEN last.baseUrl \o last.url
         ELSE IF /\ URL(last.url).valid
                 /\ URL(last.url).hostname = URL(env.WEBAPP_URL).hostname
         THEN last.url
         ELSE last.baseUrl
    /\ StaysOnOwnHost

(* C14 amended: as stated for a url that starts with "/" or parses as an
   absolute URL; for any other url (no scheme, such as "dashboard" or the
   empty string) the callback throws the TypeError of new URL and returns
   nothing.  A returned URL points to the host of baseUrl or of WEBAPP_URL. *)
C14_RedirectStaysHome ==
  RedirectCall =>
    /\ IF startsWith(last.url, "/")
       THEN last.outcome = "return" /\ last.value = last.baseUrl \o last.url
       ELSE IF ~URL(last.url).valid
       THEN last.outcome = "throw"
       ELSE /\ last.outcome = "return"
            /\ last.value =
                 IF URL(last.url).hostname = URL(env.WEBAPP_URL).hostname
                 THEN last.url ELSE last.baseUrl
    /\ StaysOnOwnHost

\* a callback URL on a foreign host that carries the own host as user name
\* was replaced by baseUrl
C14_Witness ==
  /\ RedirectCall
  /\ last.url = "https://app.cal.test@evil.test/bookings"
  /\ last.outcome = "return" /\ last.value = last.baseUrl

---------------------------------------------------------------------------
(* Properties of the email provider *)

(* C15: magic links are valid for 10 minutes only: maxAge, in seconds, is
   600, so a verification token expires 600 seconds after it was issued and
   no link older than that is accepted.  The code sets maxAge to 10 * 60 * 60,
   which is ten hours. *)
C15_MagicLinkTenMinutes ==
  /\ last.op \in {"sendVerificationRequest", "useMagicLink"} =>
       last.expires - last.issuedAt = 600
  /\ (last.op = "useMagicLink" /\ last.accepted) =>
       last.now - last.issuedAt <= 600

\* a link followed an hour after the request is accepted
C15_HourOldLinkAccepted ==
  /\ last.op = "useMagicLink" /\ last.accepted
  /\ last.now - last.issuedAt = 3600

---------------------------------------------------------------------------
(* Properties of the role authorize returns *)

\* authorize has returned a user object
LoggedIn == AuthorizedFor /\ last.outcome = "ok"

\* the user is an ADMIN with a password identity
CalAdmin ==
  /\ users[last.userId].role = "ADMIN"
  /\ users[last.userId].identityProvider = CAL

\* one of the conditions under which an admin keeps the role
AdminConditionsMet ==
  \/ env.NEXT_PUBLIC_IS_E2E
  \/ isPasswordValid(last.credentials.password)
       /\ users[last.userId].twoFactorEnabled
  \/ env.isENVDev

(* C16: the role authorize returns is the stored role for a user that is not
   ADMIN and for an ADMIN of another identity provider than CAL; for an ADMIN
   with identity provider CAL it is ADMIN if E2E mode is on, or the supplied
   password meets the strict rules and two-factor is enabled, or the
   environment is development, and INACTIVE_ADMIN in every other case. *)
C16_AdminRoleValidation ==
  LoggedIn =>
    last.returned.role =
      IF ~CalAdmin THEN users[last.userId].role
      ELSE IF AdminConditionsMet THEN "ADMIN"
      ELSE "INACTIVE_ADMIN"

\* an admin with two-factor logs in with a password that is correct but
\* weak and is handed INACTIVE_ADMIN
C16_Witness ==
  /\ LoggedIn /\ CalAdmin /\ ~AdminConditionsMet
  /\ users[last.userId].twoFactorEnabled
  /\ ~WrongPassword
  /\ last.returned.role = "INACTIVE_ADMIN"

\* an admin with two-factor and a strong password keeps the role in production
C16_AdminKept ==
  /\ LoggedIn /\ CalAdmin
  /\ ~env.NEXT_PUBLIC_IS_E2E /\ ~env.isENVDev
  /\ last.returned.role = "ADMIN"

---------------------------------------------------------------------------
(* Properties of the /api/auth/session handler *)

\* the last step was a request to the handler
HandlerCall == last.op = "handler"

(* C17: the handler answers every request with status 200 and a JSON body
   equal to the value getServerSession returned, null included, and never
   with an error status.  In the code a payload without calUser makes
   getServerSession throw, and the handler does not catch it. *)
C17_SessionHandler ==
  HandlerCall =>
    /\ last.response.status = 200
    /\ last.response.isNull <=> last.outcome = "null"
    /\ last.outcome = "session" => last.response.json = last.session

(* C17 in the code: status 200 with the returned value whenever
   getServerSession returns, null included; an error status only when it
   throws. *)
C17_AnswersWhatIsReturned ==
  HandlerCall =>
    IF last.outcome = "TypeError"
    THEN last.response.status = 500 /\ last.payload.kind = "empty"
    ELSE /\ last.response.status = 200
         /\ last.response.isNull <=> last.outcome = "null"
         /\ last.outcome = "session" => last.response.json = last.session

\* a request without session whose upstream answer is null gets 200 and null
C17_NullAnswered ==
  /\ HandlerCall /\ last.payload.kind = "falsy"
  /\ last.response.status = 200 /\ last.response.isNull

---------------------------------------------------------------------------
(* Properties of account linking by e-mail *)

\* the user the last sign-in found by e-mail, as stored before the call
FoundUser == last.usersBefore[last.matched]

\* rule 1: self-hosted, verified e-mail, another identity provider than CAL
MergeRule ==
  ~env.hostedCal /\ FoundUser.emailVerified /\ FoundUser.identityProvider # CAL

\* the sign-in was let through: true, or the TOTP redirect for a user with
\* two-factor
SignInAccepted ==
  last.result = IF FoundUser.twoFactorEnabled
                THEN loginWithTotp(FoundUser.email) ELSE "true"

\* no record was changed
NothingChanged ==
  users = last.usersBefore /\ userPassword = last.userPasswordBefore

\* the record was claimed for the incoming provider, with a verified e-mail
\* and a generated username
RecordClaimed ==
  /\ users[last.matched].identityProvider = LastIdP
  /\ users[last.matched].identityProviderId = last.params.account.providerAccountId
  /\ users[last.matched].emailVerified
  /\ users[last.matched].username = usernameSlug(last.params.user.name, "x7k2m9")

(* C18: when no user exists for the provider id and one is found by e-mail,
   the first rule that matches decides: (1) self-hosted, verified e-mail and a
   provider other than CAL: accepted, record unchanged; (2) an invited user:
   the record is claimed for the incoming provider; (3) a CAL user: converted
   to the incoming provider; (4) otherwise the use-identity-login error and no
   change.  In the code the update of rules 2 and 3 can fail on the unique
   e-mail, and then nothing is claimed or converted. *)
C18_LinkingPrecedence ==
  FoundByEmail =>
    IF MergeRule THEN SignInAccepted /\ NothingChanged
    ELSE IF WasInvited THEN RecordClaimed
    ELSE IF FoundUser.identityProvider = CAL THEN NowProviderUser
    ELSE last.result = "/auth/error?error=use-identity-login" /\ NothingChanged

(* C18 in the code: the same order of rules; rules 2 and 3 take effect unless
   another record holds the incoming e-mail in exactly the incoming spelling,
   in which case signIn throws and no record changes. *)
C18_PrecedenceInCode ==
  FoundByEmail =>
    IF MergeRule THEN SignInAccepted /\ NothingChanged /\ last.path = "autoMerge"
    ELSE IF emailTaken(last.usersBefore, last.matched, last.params.user.email)
            /\ (WasInvited \/ FoundUser.identityProvider = CAL)
    THEN last.result = "throw P2002" /\ NothingChanged
    ELSE IF WasInvited
    THEN RecordClaimed /\ SignInAccepted /\ last.path = "invited"
    ELSE IF FoundUser.identityProvider = CAL
    THEN NowProviderUser /\ SignInAccepted /\ last.path = "convert"
    ELSE /\ last.result = "/auth/error?error=use-identity-login"
         /\ NothingChanged

\* on a hosted deployment a Google user found by e-mail is sent to its own
\* provider by a SAML sign-in
C18_UseIdentityLogin ==
  /\ FoundByEmail /\ ~MergeRule /\ ~WasInvited
  /\ FoundUser.identityProvider # CAL
  /\ last.result = "/auth/error?error=use-identity-login"

\* an invited placeholder was claimed for the incoming provider
C18_InvitedClaimed ==
  /\ FoundByEmail /\ ~MergeRule /\ WasInvited /\ RecordClaimed

====
